---- MODULE Spec2Model ----
(***************************************************************************)
(* Static type checker of "Assignment A" (main.py): the expression and     *)
(* command ASTs, type_check_expr, type_check_cmd and the typing context    *)
(* they read and mutate.                                                   *)
(*                                                                         *)
(* An AST node is a record whose tag is the name of its dataclass and      *)
(* whose other fields are the dataclass' fields.  A context (a Python      *)
(* dict) is a function from the set of its keys to type strings.  A raised *)
(* exception is a result whose err is the exception class, msg the text of *)
(* the message and arg the value formatted into it; err = "none" is a      *)
(* normal return.  calls is the sequence of nodes on which type_check_expr *)
(* / type_check_cmd were entered, in call order.                           *)
(***************************************************************************)
EXTENDS Integers, Sequences, FiniteSets, TLC

VARIABLES context, ctx0, call, result, pc

vars == <<context, ctx0, call, result, pc>>

(***************************************************************************)
(* Bounds of the model.                                                    *)
(***************************************************************************)
\* integer literals carry a value in 0..MaxInt
MaxInt == 1

(***************************************************************************)
(* AST model (dataclasses).                                                *)
(***************************************************************************)
IntLiteral(value) == [tag |-> "IntLiteral", value |-> value]
\* value: the bool as Python's int subclass holds it, False = 0 and True = 1
BoolLiteral(value) == [tag |-> "BoolLiteral", value |-> value]
Var(name) == [tag |-> "Var", name |-> name]
BinOp(op, left, right) == [tag |-> "BinOp", op |-> op, left |-> left, right |-> right]
UnOp(op, expr) == [tag |-> "UnOp", op |-> op, expr |-> expr]

Assign(var, expr) == [tag |-> "Assign", var |-> var, expr |-> expr]
Seq_(first, second) == [tag |-> "Seq", first |-> first, second |-> second]
If(cond, then_branch, else_branch) ==
    [tag |-> "If", cond |-> cond, then_branch |-> then_branch, else_branch |-> else_branch]
While(cond, body) == [tag |-> "While", cond |-> cond, body |-> body]

\* a value that is an instance of none of Assign, Seq, If, While
Other == [tag |-> "Other"]

ExprTags == {"IntLiteral", "BoolLiteral", "Var", "BinOp", "UnOp"}
CmdTags == {"Assign", "Seq", "If", "While"}

(***************************************************************************)
(* Operator tables of type_check_expr.                                     *)
(***************************************************************************)
ArithOps == {"+", "-", "*", "/"}
CompareOps == {"=", "<="}
LogicOps == {"and", "or"}
UnOps == {"not", "-"}

(***************************************************************************)
(* Results: a normal return or a raised exception.                         *)
(***************************************************************************)
\* the value an error message is formatted with, when there is none
NoArg == [tag |-> "none"]
\* type(cmd), as the unknown-command message prints it
TypeOf(node) == [tag |-> node.tag]

Return(type, calls) ==
    [err |-> "none", msg |-> "", arg |-> NoArg, type |-> type, calls |-> calls]
\* raise err(msg), or err(msg + str(arg)) for an f-string message
Raise(err, msg, arg, calls) ==
    [err |-> err, msg |-> msg, arg |-> arg, type |-> "none", calls |-> calls]
\* an exception raised by a nested call passes through this frame
Propagate(e, calls) == [e EXCEPT !.calls = calls]

\* variant of ContextGet: an unbound name defaults to 'int'
ContextGet_DefaultInt(ctx, name) == IF name \in DOMAIN ctx THEN ctx[name] ELSE "int"

\* context.get(name, 'undefined')
ContextGet(ctx, name) == IF name \in DOMAIN ctx THEN ctx[name] ELSE "undefined"

\* context[var] = etype
ContextSet(ctx, var, etype) ==
    [n \in (DOMAIN ctx) \cup {var} |-> IF n = var THEN etype ELSE ctx[n]]

(***************************************************************************)
(* type_check_expr(expr, context).  It never writes the context.           *)
(***************************************************************************)
RECURSIVE type_check_expr(_, _)

\* variant of CheckUnOp: 'not' passes its operand's type on unchecked
CheckUnOp_NoCheck(expr, ctx) ==
    LET e == type_check_expr(expr.expr, ctx)
        et == e.type
        calls == <<expr>> \o e.calls
    IN  IF e.err # "none" THEN Propagate(e, calls)
        ELSE IF expr.op = "not" THEN Return(et, calls)
        ELSE IF expr.op = "-" THEN
            IF et # "int" THEN Raise("TypeError", "Expected int in unary '-'", NoArg, calls)
            ELSE Return("int", calls)
        ELSE Raise("NotImplementedError", "Unknown expr: ", expr, calls)

\* the isinstance(expr, UnOp) branch
CheckUnOp(expr, ctx) ==
    LET e == type_check_expr(expr.expr, ctx)
        et == e.type
        calls == <<expr>> \o e.calls
    IN  IF e.err # "none" THEN Propagate(e, calls)
        ELSE IF expr.op = "not" THEN
            IF et # "bool" THEN Raise("TypeError", "Expected bool in 'not'", NoArg, calls)
            ELSE Return("bool", calls)
        ELSE IF expr.op = "-" THEN
            IF et # "int" THEN Raise("TypeError", "Expected int in unary '-'", NoArg, calls)
            ELSE Return("int", calls)
        ELSE Raise("NotImplementedError", "Unknown expr: ", expr, calls)

\* variant of CheckBinOp: the arithmetic and comparison rules look at the
\* left operand only
CheckBinOp_LeftOnly(expr, ctx) ==
    LET l == type_check_expr(expr.left, ctx)
    IN  IF l.err # "none" THEN Propagate(l, <<expr>> \o l.calls)
        ELSE
        LET r == type_check_expr(expr.right, ctx)
            lt == l.type
            rt == r.type
            calls == <<expr>> \o l.calls \o r.calls
        IN  IF r.err # "none" THEN Propagate(r, calls)
            ELSE IF expr.op \in ArithOps THEN
                IF lt = "int" THEN Return("int", calls)
                ELSE Raise("TypeError", "Arithmetic operations require int", NoArg, calls)
            ELSE IF expr.op \in CompareOps THEN
                IF lt = "int" THEN Return("bool", calls)
                ELSE Raise("TypeError", "Comparison requires int", NoArg, calls)
            ELSE IF expr.op \in LogicOps THEN
                IF lt = rt /\ rt = "bool" THEN Return("bool", calls)
                ELSE Raise("TypeError", "Logical operations require bool", NoArg, calls)
            ELSE Raise("NotImplementedError", "Unknown expr: ", expr, calls)

\* variant of CheckBinOp: both operands are checked before either error is
\* looked at, and the right operand's error wins
CheckBinOp_RightWins(expr, ctx) ==
    LET l == type_check_expr(expr.left, ctx)
        r == type_check_expr(expr.right, ctx)
        lt == l.type
        rt == r.type
        calls == <<expr>> \o l.calls \o r.calls
    IN  IF r.err # "none" THEN Propagate(r, calls)
        ELSE IF l.err # "none" THEN Propagate(l, calls)
        ELSE IF expr.op \in ArithOps THEN
            IF lt = rt /\ rt = "int" THEN Return("int", calls)
            ELSE Raise("TypeError", "Arithmetic operations require int", NoArg, calls)
        ELSE IF expr.op \in CompareOps THEN
            IF lt = rt /\ rt = "int" THEN Return("bool", calls)
            ELSE Raise("TypeError", "Comparison requires int", NoArg, calls)
        ELSE IF expr.op \in LogicOps THEN
            IF lt = rt /\ rt = "bool" THEN Return("bool", calls)
            ELSE Raise("TypeError", "Logical operations require bool", NoArg, calls)
        ELSE Raise("NotImplementedError", "Unknown expr: ", expr, calls)

\* the isinstance(expr, BinOp) branch: the left operand, then the right
\* operand, then the operator
CheckBinOp(expr, ctx) ==
    LET l == type_check_expr(expr.left, ctx)
    IN  IF l.err # "none" THEN Propagate(l, <<expr>> \o l.calls)
        ELSE
        LET r == type_check_expr(expr.right, ctx)
            lt == l.type
            rt == r.type
            calls == <<expr>> \o l.calls \o r.calls
        IN  IF r.err # "none" THEN Propagate(r, calls)
            ELSE IF expr.op \in ArithOps THEN
                IF lt = rt /\ rt = "int" THEN Return("int", calls)
                ELSE Raise("TypeError", "Arithmetic operations require int", NoArg, calls)
            ELSE IF expr.op \in CompareOps THEN
                IF lt = rt /\ rt = "int" THEN Return("bool", calls)
                ELSE Raise("TypeError", "Comparison requires int", NoArg, calls)
            ELSE IF expr.op \in LogicOps THEN
                IF lt = rt /\ rt = "bool" THEN Return("bool", calls)
                ELSE Raise("TypeError", "Logical operations require bool", NoArg, calls)
            ELSE Raise("NotImplementedError", "Unknown expr: ", expr, calls)

type_check_expr(expr, ctx) ==
    IF expr.tag = "IntLiteral" THEN Return("int", <<expr>>)
    ELSE IF expr.tag = "BoolLiteral" THEN Return("bool", <<expr>>)
    ELSE IF expr.tag = "Var" THEN Return(ContextGet(ctx, expr.name), <<expr>>)
    ELSE IF expr.tag = "UnOp" THEN CheckUnOp(expr, ctx)
    ELSE IF expr.tag = "BinOp" THEN CheckBinOp(expr, ctx)
    ELSE Raise("NotImplementedError", "Unknown expr: ", expr, <<expr>>)

(***************************************************************************)
(* type_check_cmd(cmd, context).  The context is mutated in place, so the  *)
(* result carries the context as the call left it, also when it raises.    *)
(***************************************************************************)
Done(ctx, calls) ==
    [err |-> "none", msg |-> "", arg |-> NoArg, context |-> ctx, calls |-> calls]
\* raise err(msg) with the context as it is at that moment
Fail(err, msg, arg, ctx, calls) ==
    [err |-> err, msg |-> msg, arg |-> arg, context |-> ctx, calls |-> calls]
\* an exception raised by a nested type_check_expr passes through this frame
FailFrom(e, ctx, calls) == Fail(e.err, e.msg, e.arg, ctx, calls)

RECURSIVE type_check_cmd(_, _)

\* variant of CheckAssign: rebinding a variable to another type is an error
CheckAssign_Strict(cmd, ctx) ==
    LET e == type_check_expr(cmd.expr, ctx)
        etype == e.type
        calls == <<cmd>> \o e.calls
    IN  IF e.err # "none" THEN FailFrom(e, ctx, calls)
        ELSE IF cmd.var \in DOMAIN ctx /\ ctx[cmd.var] # etype
            THEN Fail("TypeError", "Redefinition with different type", NoArg, ctx, calls)
        ELSE Done(ContextSet(ctx, cmd.var, etype), calls)

\* the isinstance(cmd, Assign) branch
CheckAssign(cmd, ctx) ==
    LET e == type_check_expr(cmd.expr, ctx)
        etype == e.type
        calls == <<cmd>> \o e.calls
    IN  IF e.err # "none" THEN FailFrom(e, ctx, calls)
        ELSE Done(ContextSet(ctx, cmd.var, etype), calls)

\* variant of CheckSeq: the second command is checked against a copy of the
\* entry context and the bindings are merged afterwards
CheckSeq_Copy(cmd, ctx) ==
    LET f == type_check_cmd(cmd.first, ctx)
    IN  IF f.err # "none" THEN [f EXCEPT !.calls = <<cmd>> \o f.calls]
        ELSE
        LET s == type_check_cmd(cmd.second, ctx)
            merged == [n \in DOMAIN f.context \cup DOMAIN s.context |->
                         IF n \in DOMAIN s.context THEN s.context[n] ELSE f.context[n]]
        IN  [s EXCEPT !.context = merged, !.calls = <<cmd>> \o f.calls \o s.calls]

\* the isinstance(cmd, Seq) branch
CheckSeq(cmd, ctx) ==
    LET f == type_check_cmd(cmd.first, ctx)
    IN  IF f.err # "none" THEN [f EXCEPT !.calls = <<cmd>> \o f.calls]
        ELSE
        LET s == type_check_cmd(cmd.second, f.context)
        IN  [s EXCEPT !.calls = <<cmd>> \o f.calls \o s.calls]

\* variant of CheckIf: each branch is checked in its own copy of the entry
\* context and the else-branch's bindings are kept
CheckIf_Isolated(cmd, ctx) ==
    LET c == type_check_expr(cmd.cond, ctx)
        ctype == c.type
        calls == <<cmd>> \o c.calls
    IN  IF c.err # "none" THEN FailFrom(c, ctx, calls)
        ELSE IF ctype # "bool" THEN
            Fail("TypeError", "Condition in If must be bool", NoArg, ctx, calls)
        ELSE
        LET t == type_check_cmd(cmd.then_branch, ctx)
        IN  IF t.err # "none" THEN [t EXCEPT !.calls = calls \o t.calls]
            ELSE
            LET e == type_check_cmd(cmd.else_branch, ctx)
            IN  [e EXCEPT !.calls = calls \o t.calls \o e.calls]

\* the isinstance(cmd, If) branch
CheckIf(cmd, ctx) ==
    LET c == type_check_expr(cmd.cond, ctx)
        ctype == c.type
        calls == <<cmd>> \o c.calls
    IN  IF c.err # "none" THEN FailFrom(c, ctx, calls)
        ELSE IF ctype # "bool" THEN
            Fail("TypeError", "Condition in If must be bool", NoArg, ctx, calls)
        ELSE
        LET t == type_check_cmd(cmd.then_branch, ctx)
        IN  IF t.err # "none" THEN [t EXCEPT !.calls = calls \o t.calls]
            ELSE
            LET e == type_check_cmd(cmd.else_branch, t.context)
            IN  [e EXCEPT !.calls = calls \o t.calls \o e.calls]

\* variant of CheckWhile: the condition is checked again in the context the
\* body left
CheckWhile_Recheck(cmd, ctx) ==
    LET c == type_check_expr(cmd.cond, ctx)
        ctype == c.type
        calls == <<cmd>> \o c.calls
    IN  IF c.err # "none" THEN FailFrom(c, ctx, calls)
        ELSE IF ctype # "bool" THEN
            Fail("TypeError", "Condition in While must be bool", NoArg, ctx, calls)
        ELSE
        LET b == type_check_cmd(cmd.body, ctx)
            again == type_check_expr(cmd.cond, b.context)
        IN  IF b.err # "none" THEN [b EXCEPT !.calls = calls \o b.calls]
            ELSE IF again.err # "none" THEN
                FailFrom(again, b.context, calls \o b.calls \o again.calls)
            ELSE IF again.type # "bool" THEN
                Fail("TypeError", "Condition in While must be bool", NoArg, b.context,
                     calls \o b.calls \o again.calls)
            ELSE [b EXCEPT !.calls = calls \o b.calls \o again.calls]

\* the isinstance(cmd, While) branch
CheckWhile(cmd, ctx) ==
    LET c == type_check_expr(cmd.cond, ctx)
        ctype == c.type
        calls == <<cmd>> \o c.calls
    IN  IF c.err # "none" THEN FailFrom(c, ctx, calls)
        ELSE IF ctype # "bool" THEN
            Fail("TypeError", "Condition in While must be bool", NoArg, ctx, calls)
        ELSE
        LET b == type_check_cmd(cmd.body, ctx)
        IN  [b EXCEPT !.calls = calls \o b.calls]

type_check_cmd(cmd, ctx) ==
    IF cmd.tag = "Assign" THEN CheckAssign(cmd, ctx)
    ELSE IF cmd.tag = "Seq" THEN CheckSeq(cmd, ctx)
    ELSE IF cmd.tag = "If" THEN CheckIf(cmd, ctx)
    ELSE IF cmd.tag = "While" THEN CheckWhile(cmd, ctx)
    ELSE Fail("TypeError", "Unknown command type: ", TypeOf(cmd), ctx, <<cmd>>)

(***************************************************************************)
(* Inputs of the calls: the variable names, contexts, expressions and      *)
(* commands the caller builds.                                             *)
(***************************************************************************)
Names == {"x", "y"}
Types == {"int", "bool", "undefined"}
PrimitiveTypes == {"int", "bool"}

Contexts(types) == UNION {[S -> types] : S \in SUBSET Names}

\* operator strings a caller may put in a node: the known ones and one
\* outside each table
AnyUnOp == UnOps \cup {"!"}
AnyBinOp == ArithOps \cup CompareOps \cup LogicOps \cup {"%"}

IntLits == {IntLiteral(n) : n \in 0..MaxInt}
Leaves == IntLits \cup {BoolLiteral(0), BoolLiteral(1)} \cup {Var(n) : n \in Names}

Vx == Var("x")
Vy == Var("y")
Lit == IntLiteral(MaxInt)
True == BoolLiteral(1)

\* every operator over every pair of leaves
Exprs1 ==
    {UnOp(o, e) : o \in AnyUnOp, e \in Leaves}
    \cup {BinOp(o, l, r) : o \in AnyBinOp, l \in Leaves, r \in Leaves}

\* operands of the nested expressions: leaves, well-typed operations,
\* operations that raise TypeError and malformed ones
Operands ==
    {Vx, Lit, True,
     UnOp("not", Lit), UnOp("!", Lit),
     BinOp("+", Vx, Lit), BinOp("<=", Vx, Lit), BinOp("and", Vy, True),
     BinOp("%", Lit, Lit)}

Exprs2 ==
    {UnOp(o, e) : o \in AnyUnOp, e \in Operands}
    \cup {BinOp(o, l, r) : o \in AnyBinOp, l \in Operands, r \in Operands}

Exprs == Leaves \cup Exprs1 \cup Exprs2

\* expressions embedded in commands
CmdExprs ==
    {Lit, True, Vx, Vy,
     BinOp("<=", Vx, Lit), BinOp("+", Vx, Lit), BinOp("and", Vy, True),
     UnOp("not", Vx), UnOp("!", Lit)}

Atoms == {Assign(v, e) : v \in Names, e \in CmdExprs} \cup {Other}

Cmds2 ==
    {Seq_(a, b) : a \in Atoms, b \in Atoms}
    \cup {If(c, a, b) : c \in CmdExprs, a \in Atoms, b \in Atoms}
    \cup {While(c, a) : c \in CmdExprs, a \in Atoms}

\* a few atoms and conditions for the deeper nestings
FewAtoms ==
    {Assign("x", Lit), Assign("x", True), Assign("y", Vx), Assign("y", BinOp("+", Vx, Lit))}
FewConds == {True, Vy, BinOp("<=", Vx, Lit)}
Inner ==
    {Seq_(a, b) : a \in FewAtoms, b \in FewAtoms}
    \cup {If(c, a, b) : c \in FewConds, a \in FewAtoms, b \in FewAtoms}
    \cup {While(c, a) : c \in FewConds, a \in FewAtoms}
Cmds3 ==
    {Seq_(n, a) : n \in Inner, a \in FewAtoms}
    \cup {Seq_(a, n) : n \in Inner, a \in FewAtoms}
    \cup {If(c, n, a) : c \in FewConds, n \in Inner, a \in FewAtoms}
    \cup {While(c, n) : c \in FewConds, n \in Inner}

Cmds == Atoms \cup Cmds2 \cup Cmds3

NoCall == [fn |-> "none", arg |-> Other]
NoResult == [err |-> "none", msg |-> "", arg |-> NoArg, type |-> "none", calls |-> <<>>]

(***************************************************************************)
(* The caller.                                                             *)
(***************************************************************************)
\* context = {} or a dict of primitive types, as the callers build it
Init ==
    /\ context \in Contexts(PrimitiveTypes)
    /\ ctx0 = context
    /\ call = NoCall
    /\ result = NoResult
    /\ pc = "ready"

\* a direct call type_check_expr(e, context)
CheckExpr ==
    /\ pc = "ready"
    /\ \E e \in Exprs :
        /\ call' = [fn |-> "type_check_expr", arg |-> e]
        /\ result' = type_check_expr(e, context)
    /\ ctx0' = context
    /\ pc' = "done"
    /\ UNCHANGED context

\* a call type_check_cmd(c, context); the dict is mutated in place
CheckCmd ==
    /\ pc = "ready"
    /\ \E c \in Cmds :
        LET r == type_check_cmd(c, context)
        IN  /\ call' = [fn |-> "type_check_cmd", arg |-> c]
            /\ result' = [err |-> r.err, msg |-> r.msg, arg |-> r.arg,
                           type |-> "none", calls |-> r.calls]
            /\ context' = r.context
    /\ ctx0' = context
    /\ pc' = "done"

\* the caller passes the dict a call left behind to a next call
Reuse ==
    /\ pc = "done"
    /\ pc' = "ready"
    /\ call' = NoCall
    /\ result' = NoResult
    /\ ctx0' = context
    /\ UNCHANGED context

Next == CheckExpr \/ CheckCmd \/ Reuse

Spec == Init /\ [][Next]_vars

TypeOK ==
    /\ context \in Contexts(Types)
    /\ ctx0 \in Contexts(Types)
    /\ pc \in {"ready", "done"}
    /\ result.err \in {"none", "TypeError", "NotImplementedError"}

(***************************************************************************)
(* Properties.  They speak of the last call: its argument (call), the      *)
(* context it started from (ctx0), what it returned or raised (result) and *)
(* the context it left (context).                                          *)
(***************************************************************************)
ExprCall == pc = "done" /\ call.fn = "type_check_expr"
CmdCall == pc = "done" /\ call.fn = "type_check_cmd"

KnownBinOps == ArithOps \cup CompareOps \cup LogicOps

Returned(type) == result.err = "none" /\ result.type = type
Raised(err) == result.err = err /\ result.type = "none"

\* Var(name) with name not a key of ctx
UnboundVar(e, ctx) == e.tag = "Var" /\ e.name \notin DOMAIN ctx

\* C1: a BinOp over one of the eight operators whose operands both check
\* without raising returns int (arithmetic) or bool (comparison) exactly when
\* both operand types are int, returns bool (logical) exactly when both are
\* bool, and in every other case raises TypeError and returns no type.
C1_BinOpTyping ==
    (ExprCall /\ call.arg.tag = "BinOp" /\ call.arg.op \in KnownBinOps) =>
        LET l == type_check_expr(call.arg.left, ctx0)
            r == type_check_expr(call.arg.right, ctx0)
            op == call.arg.op
            bothInt == l.type = "int" /\ r.type = "int"
            bothBool == l.type = "bool" /\ r.type = "bool"
        IN  (l.err = "none" /\ r.err = "none") =>
                /\ op \in ArithOps =>
                    IF bothInt THEN Returned("int") ELSE Raised("TypeError")
                /\ op \in CompareOps =>
                    IF bothInt THEN Returned("bool") ELSE Raised("TypeError")
                /\ op \in LogicOps =>
                    IF bothBool THEN Returned("bool") ELSE Raised("TypeError")
                /\ context = ctx0

\* C1 witness: an arithmetic BinOp with an int operand and an operand of the
\* undefined marker has raised TypeError.
C1_Witness ==
    /\ ExprCall
    /\ call.arg = BinOp("+", Vx, Lit)
    /\ "x" \notin DOMAIN ctx0
    /\ Raised("TypeError")

\* C2 (as stated): Var(name) returns the bound type, or 'undefined' without
\* raising when name is unbound; and every UnOp / BinOp over a known operator
\* with an unbound Var as a direct operand raises TypeError, whatever the
\* other operand is.
C2_Original ==
    /\ (ExprCall /\ call.arg.tag = "Var") =>
            Returned(IF call.arg.name \in DOMAIN ctx0
                     THEN ctx0[call.arg.name] ELSE "undefined")
    /\ (ExprCall /\ call.arg.tag = "UnOp" /\ call.arg.op \in UnOps
            /\ UnboundVar(call.arg.expr, ctx0)) => Raised("TypeError")
    /\ (ExprCall /\ call.arg.tag = "BinOp" /\ call.arg.op \in KnownBinOps
            /\ (UnboundVar(call.arg.left, ctx0) \/ UnboundVar(call.arg.right, ctx0)))
            => Raised("TypeError")

\* C2 (amended): as C2, except that a BinOp whose other operand itself
\* raises fails with that operand's error: TypeError when the operand raised
\* TypeError, NotImplementedError when the operand is malformed.
C2_UnboundVar ==
    /\ (ExprCall /\ call.arg.tag = "Var") =>
            Returned(IF call.arg.name \in DOMAIN ctx0
                     THEN ctx0[call.arg.name] ELSE "undefined")
    /\ (ExprCall /\ call.arg.tag = "UnOp" /\ call.arg.op \in UnOps
            /\ UnboundVar(call.arg.expr, ctx0)) => Raised("TypeError")
    /\ (ExprCall /\ call.arg.tag = "BinOp" /\ call.arg.op \in KnownBinOps
            /\ (UnboundVar(call.arg.left, ctx0) \/ UnboundVar(call.arg.right, ctx0))) =>
            LET other == IF UnboundVar(call.arg.left, ctx0)
                         THEN call.arg.right ELSE call.arg.left
                o == type_check_expr(other, ctx0)
            IN  IF o.err = "none" THEN Raised("TypeError") ELSE Raised(o.err)

\* C2 witness: a BinOp with an unbound Var on the left and a malformed
\* operand on the right has raised the malformed operand's error.
C2_Witness ==
    /\ ExprCall
    /\ call.arg = BinOp("+", Vx, UnOp("!", Lit))
    /\ "x" \notin DOMAIN ctx0
    /\ Raised("NotImplementedError")

\* the outcome of a type_check_cmd result: the error, if any, and the context
Outcome(r) == [err |-> r.err, msg |-> r.msg, arg |-> r.arg, context |-> r.context]
\* the outcome of the last call
LastOutcome ==
    [err |-> result.err, msg |-> result.msg, arg |-> result.arg, context |-> context]

\* C3: Seq(c1, c2) checks c1 completely before c2 and c2 against the context
\* c1 left: the outcome is that of c2 checked in the context c1 produced, and
\* when c1 fails the outcome is c1's failure, c2 is not entered and binds
\* nothing.
C3_SeqOrder ==
    (CmdCall /\ call.arg.tag = "Seq") =>
        LET c1 == type_check_cmd(call.arg.first, ctx0)
            c2 == type_check_cmd(call.arg.second, c1.context)
        IN  IF c1.err = "none"
            THEN /\ LastOutcome = Outcome(c2)
                 /\ result.calls = <<call.arg>> \o c1.calls \o c2.calls
            ELSE /\ LastOutcome = Outcome(c1)
                 /\ result.calls = <<call.arg>> \o c1.calls

\* C3 witness: x := 1; y := x from the empty context has bound x and y to int.
C3_Witness ==
    /\ CmdCall
    /\ call.arg = Seq_(Assign("x", Lit), Assign("y", Vx))
    /\ DOMAIN ctx0 = {}
    /\ result.err = "none"
    /\ DOMAIN context = {"x", "y"}
    /\ context["x"] = "int" /\ context["y"] = "int"

\* C4: Assign(v, e) whose expression checks to t succeeds whatever v was bound
\* to, binds v to t and leaves every other binding as it was; assigning an
\* int and then a bool to one variable succeeds and leaves it bound to bool.
C4_AssignOverwrites ==
    /\ (CmdCall /\ call.arg.tag = "Assign") =>
        LET e == type_check_expr(call.arg.expr, ctx0)
            v == call.arg.var
        IN  e.err = "none" =>
                /\ result.err = "none"
                /\ DOMAIN context = DOMAIN ctx0 \cup {v}
                /\ context[v] = e.type
                /\ \A n \in DOMAIN ctx0 \ {v} : context[n] = ctx0[n]
    /\ \A v \in Names :
        (CmdCall /\ call.arg = Seq_(Assign(v, Lit), Assign(v, True))) =>
            /\ result.err = "none"
            /\ context[v] = "bool"

\* C4 witness: x := True has succeeded on a context that bound x to int and y
\* to something, and x is now bool.
C4_Witness ==
    /\ CmdCall
    /\ call.arg = Assign("x", True)
    /\ DOMAIN ctx0 = {"x", "y"}
    /\ ctx0["x"] = "int"
    /\ result.err = "none"
    /\ context["x"] = "bool"

\* C5 (as stated): an If whose condition does not check to bool fails with
\* TypeError before either branch is checked; otherwise both branches are
\* checked, then-branch first, on the one context, with the outcome of
\* Seq(then, else).
C5_Original ==
    (CmdCall /\ call.arg.tag = "If") =>
        LET c == type_check_expr(call.arg.cond, ctx0)
            t == type_check_cmd(call.arg.then_branch, ctx0)
            e == type_check_cmd(call.arg.else_branch, t.context)
        IN  IF c.err # "none" \/ c.type # "bool"
            THEN /\ result.err = "TypeError"
                 /\ context = ctx0
                 /\ result.calls = <<call.arg>> \o c.calls
            ELSE /\ LastOutcome = (IF t.err = "none" THEN Outcome(e) ELSE Outcome(t))
                 /\ LastOutcome =
                        Outcome(type_check_cmd(
                            Seq_(call.arg.then_branch, call.arg.else_branch), ctx0))
                 /\ result.calls = <<call.arg>> \o c.calls \o t.calls
                        \o (IF t.err = "none" THEN e.calls ELSE <<>>)

\* C5 (amended): as C5, except that an If whose condition itself raises fails
\* with the condition's error (TypeError, or NotImplementedError for a
\* malformed condition); a condition that returns a type other than bool
\* fails with TypeError.
C5_IfBranches ==
    (CmdCall /\ call.arg.tag = "If") =>
        LET c == type_check_expr(call.arg.cond, ctx0)
            t == type_check_cmd(call.arg.then_branch, ctx0)
            e == type_check_cmd(call.arg.else_branch, t.context)
        IN  IF c.err # "none" \/ c.type # "bool"
            THEN /\ result.err = (IF c.err # "none" THEN c.err ELSE "TypeError")
                 /\ context = ctx0
                 /\ result.calls = <<call.arg>> \o c.calls
            ELSE /\ LastOutcome = (IF t.err = "none" THEN Outcome(e) ELSE Outcome(t))
                 /\ LastOutcome =
                        Outcome(type_check_cmd(
                            Seq_(call.arg.then_branch, call.arg.else_branch), ctx0))
                 /\ result.calls = <<call.arg>> \o c.calls \o t.calls
                        \o (IF t.err = "none" THEN e.calls ELSE <<>>)

\* C5 witness: if True then x := 1 else y := x, from the empty context, has
\* succeeded with y bound to the int the then-branch gave x.
C5_Witness ==
    /\ CmdCall
    /\ call.arg = If(True, Assign("x", Lit), Assign("y", Vx))
    /\ DOMAIN ctx0 = {}
    /\ result.err = "none"
    /\ DOMAIN context = {"x", "y"}
    /\ context["y"] = "int"

\* C6 (as stated): a While whose condition does not check to bool in the
\* entry context fails with TypeError and its body is not checked; otherwise
\* the body is checked once, the condition is not checked again, and the
\* outcome is that of one check of the body.
C6_Original ==
    (CmdCall /\ call.arg.tag = "While") =>
        LET c == type_check_expr(call.arg.cond, ctx0)
            b == type_check_cmd(call.arg.body, ctx0)
        IN  IF c.err # "none" \/ c.type # "bool"
            THEN /\ result.err = "TypeError"
                 /\ context = ctx0
                 /\ result.calls = <<call.arg>> \o c.calls
            ELSE /\ LastOutcome = Outcome(b)
                 /\ result.calls = <<call.arg>> \o c.calls \o b.calls

\* C6 (amended): as C6, except that a While whose condition itself raises
\* fails with the condition's error (TypeError, or NotImplementedError for a
\* malformed condition); a condition that returns a type other than bool
\* fails with TypeError.
C6_WhileOnce ==
    (CmdCall /\ call.arg.tag = "While") =>
        LET c == type_check_expr(call.arg.cond, ctx0)
            b == type_check_cmd(call.arg.body, ctx0)
        IN  IF c.err # "none" \/ c.type # "bool"
            THEN /\ result.err = (IF c.err # "none" THEN c.err ELSE "TypeError")
                 /\ context = ctx0
                 /\ result.calls = <<call.arg>> \o c.calls
            ELSE /\ LastOutcome = Outcome(b)
                 /\ result.calls = <<call.arg>> \o c.calls \o b.calls

\* C6 witness: while x <= n do x := True, from a context binding x to int,
\* has succeeded with x bound to bool.
C6_Witness ==
    /\ CmdCall
    /\ call.arg = While(BinOp("<=", Vx, Lit), Assign("x", True))
    /\ "x" \in DOMAIN ctx0 /\ ctx0["x"] = "int"
    /\ result.err = "none"
    /\ context["x"] = "bool"

\* C7: every malformed node fails in the one unrecognized-construct class
\* (NotImplementedError, the class type_check_expr raises for it), never in
\* the TypeError class of type mismatches: a UnOp or BinOp with an operator
\* outside the tables whose operands check without raising, and a command
\* that is none of Assign, Seq, If, While.
C7_UnrecognizedClass ==
    /\ (ExprCall /\ call.arg.tag = "UnOp" /\ call.arg.op \notin UnOps
            /\ type_check_expr(call.arg.expr, ctx0).err = "none")
            => Raised("NotImplementedError")
    /\ (ExprCall /\ call.arg.tag = "BinOp" /\ call.arg.op \notin KnownBinOps
            /\ type_check_expr(call.arg.left, ctx0).err = "none"
            /\ type_check_expr(call.arg.right, ctx0).err = "none")
            => Raised("NotImplementedError")
    /\ (CmdCall /\ call.arg.tag \notin CmdTags)
            => (result.err = "NotImplementedError" /\ result.err # "TypeError")

Primitive(ctx) == \A n \in DOMAIN ctx : ctx[n] \in PrimitiveTypes

\* C8 (as stated): from a context whose values are all int or bool, every
\* value in the context after a successful type_check_cmd is int or bool.
C8_Original ==
    (CmdCall /\ result.err = "none" /\ Primitive(ctx0)) => Primitive(context)

\* C8 (amended): from a context whose values are all int or bool, every
\* value in the context after a successful type_check_cmd is int or bool,
\* except that a variable may be bound to the marker 'undefined' when the
\* command assigns it a bare Var.
C8_ContextTypes ==
    (CmdCall /\ result.err = "none" /\ Primitive(ctx0)) =>
        \A n \in DOMAIN context :
            \/ context[n] \in PrimitiveTypes
            \/ /\ context[n] = "undefined"
               /\ \E i \in 1..Len(result.calls) :
                    /\ result.calls[i].tag = "Assign"
                    /\ result.calls[i].var = n
                    /\ result.calls[i].expr.tag = "Var"

\* C8 witness: y := x has succeeded from the empty context and bound y to
\* the marker.
C8_Witness ==
    /\ CmdCall
    /\ call.arg = Assign("y", Vx)
    /\ DOMAIN ctx0 = {}
    /\ result.err = "none"
    /\ context["y"] = "undefined"

\* the nodes of a tree, parents before children and left before right
RECURSIVE PreOrder(_)
PreOrder(n) ==
    IF n.tag = "UnOp" THEN <<n>> \o PreOrder(n.expr)
    ELSE IF n.tag = "BinOp" THEN <<n>> \o PreOrder(n.left) \o PreOrder(n.right)
    ELSE IF n.tag = "Assign" THEN <<n>> \o PreOrder(n.expr)
    ELSE IF n.tag = "Seq" THEN <<n>> \o PreOrder(n.first) \o PreOrder(n.second)
    ELSE IF n.tag = "If" THEN
        <<n>> \o PreOrder(n.cond) \o PreOrder(n.then_branch) \o PreOrder(n.else_branch)
    ELSE IF n.tag = "While" THEN <<n>> \o PreOrder(n.cond) \o PreOrder(n.body)
    ELSE <<n>>

IsPrefix(s, t) == Len(s) <= Len(t) /\ SubSeq(t, 1, Len(s)) = s

IsCmdNode(n) == n.tag \notin ExprTags

\* what a command node does by itself in context ctx, its nested commands
\* apart: an Assign checks its expression and binds, an If or While checks
\* its condition, a Seq does nothing
OwnStep(n, ctx) ==
    IF n.tag = "Assign" THEN
        LET e == type_check_expr(n.expr, ctx)
        IN  [err |-> e.err, msg |-> e.msg, arg |-> e.arg, calls |-> e.calls,
             context |-> IF e.err = "none" THEN ContextSet(ctx, n.var, e.type) ELSE ctx]
    ELSE IF n.tag \in {"If", "While"} THEN
        LET c == type_check_expr(n.cond, ctx)
        IN  IF c.err = "none" /\ c.type # "bool"
            THEN [err |-> "TypeError", msg |-> "Condition in " \o n.tag \o " must be bool",
                  arg |-> NoArg, calls |-> c.calls, context |-> ctx]
            ELSE [err |-> c.err, msg |-> c.msg, arg |-> c.arg, calls |-> c.calls,
                  context |-> ctx]
    ELSE IF n.tag = "Seq" THEN
        [err |-> "none", msg |-> "", arg |-> NoArg, calls |-> <<>>, context |-> ctx]
    ELSE [err |-> "TypeError", msg |-> "Unknown command type: ", arg |-> TypeOf(n),
          calls |-> <<>>, context |-> ctx]

\* the command nodes taken one after the other from position i in context
\* ctx, up to the first one whose own step fails (at = its position, 0 when
\* none fails)
RECURSIVE Replay(_, _, _)
Replay(nodes, i, ctx) ==
    IF i > Len(nodes)
    THEN [err |-> "none", msg |-> "", arg |-> NoArg, calls |-> <<>>, context |-> ctx, at |-> 0]
    ELSE LET s == OwnStep(nodes[i], ctx)
         IN  IF s.err # "none"
             THEN [err |-> s.err, msg |-> s.msg, arg |-> s.arg, calls |-> s.calls,
                   context |-> ctx, at |-> i]
             ELSE Replay(nodes, i + 1, s.context)

\* C10: a failing check is one left-to-right, top-down traversal cut at the
\* first violation: the nodes entered are a prefix of the tree's pre-order;
\* the first command node whose own step fails is the last command node
\* entered and its error is the one raised; after it only the expression
\* nodes of that step are entered; the context at the failure is the starting
\* context updated by the assignments completed before it; and a BinOp whose
\* left operand raises reports that error without entering the right operand.
C10_FailFast ==
    /\ (CmdCall /\ result.err # "none") =>
        LET nodes == SelectSeq(result.calls, IsCmdNode)
            rp == Replay(nodes, 1, ctx0)
            k == Len(result.calls)
        IN  /\ IsPrefix(result.calls, PreOrder(call.arg))
            /\ rp.at = Len(nodes)
            /\ rp.err = result.err /\ rp.msg = result.msg /\ rp.arg = result.arg
            /\ rp.context = context
            /\ SubSeq(result.calls, k - Len(rp.calls), k) = <<nodes[Len(nodes)]>> \o rp.calls
    /\ (ExprCall /\ result.err # "none") =>
        /\ IsPrefix(result.calls, PreOrder(call.arg))
        /\ context = ctx0
    /\ (ExprCall /\ call.arg.tag = "BinOp") =>
        LET l == type_check_expr(call.arg.left, ctx0)
        IN  l.err # "none" =>
                /\ result.err = l.err /\ result.msg = l.msg /\ result.arg = l.arg
                /\ result.calls = <<call.arg>> \o l.calls

\* C10 witness: if True then x := 1 else y := not x, from the empty context,
\* has raised TypeError in the else-branch with x, and only x, bound.
C10_Witness ==
    /\ CmdCall
    /\ call.arg = If(True, Assign("x", Lit), Assign("y", UnOp("not", Vx)))
    /\ DOMAIN ctx0 = {}
    /\ result.err = "TypeError"
    /\ DOMAIN context = {"x"}
    /\ context["x"] = "int"

====
